---------------------------- MODULE Spec2Model ----------------------------
(***************************************************************************)
(* Position tracking, proximity notification and the location write of    *)
(* the pharmacy delivery application.                                     *)
(*                                                                        *)
(* Coordinates are integers: metres of arc east (lng) and north (lat) of  *)
(* a reference point.  At the sub-kilometre scale of the model the        *)
(* haversine distance is the Euclidean distance of these offsets and the  *)
(* bearing formula's atan2(y, x) is atan2(east, north).  Angles are       *)
(* milliradians, bearings are millidegrees.                               *)
(*                                                                        *)
(* A JavaScript value that may be null or undefined is a sequence of      *)
(* length 0 (absent) or 1 (present).                                      *)
(***************************************************************************)
EXTENDS Integers, Sequences, FiniteSets, TLC

(* ------------------------------ bounds -------------------------------- *)
MaxFixes == 3
MaxCalls == 2
MaxAssigns == 1

(* ------------------------------ values -------------------------------- *)
NULL == <<>>
Some(x) == <<x>>
IsNull(v) == v = <<>>
Val(v) == v[1]

Agents == {"d1", "d2"}
OrderIds == {1, 2, 3}
Statuses == {"available", "in_route", "offline"}

Pt(lat, lng) == [lat |-> lat, lng |-> lng]

\* positions the location service may report
Points == {Pt(1301, 1000), Pt(1299, 1000), Pt(1100, 1000)}

\* Order.deliveryLocation: lat and lng are optional numbers
deliveryLocation(o) ==
    CASE o = 1 -> [lat |-> Some(1000), lng |-> Some(1000)]
      [] o = 3 -> [lat |-> Some(1100), lng |-> Some(1300)]
      [] OTHER -> [lat |-> NULL,       lng |-> NULL]

(* ----------------------------- geo math ------------------------------- *)
NEARBY_DISTANCE_METERS == 300

Abs(n) == IF n < 0 THEN 0 - n ELSE n

\* Newton's iteration for the integer square root, from the guess x
RECURSIVE NewtonSqrt(_, _)
NewtonSqrt(n, x) ==
    LET y == (x + n \div x) \div 2
    IN  IF y >= x THEN x ELSE NewtonSqrt(n, y)

\* least r with r * r >= n
CeilSqrt(n) ==
    IF n = 0 THEN 0
    ELSE LET f == NewtonSqrt(n, n)
         IN  IF f * f = n THEN f ELSE f + 1

getDistance(lat1, lon1, lat2, lon2) ==
    CeilSqrt((lat2 - lat1) * (lat2 - lat1) + (lon2 - lon1) * (lon2 - lon1))

PiMrad == 3142
HalfPiMrad == PiMrad \div 2

\* atan(n / d) in milliradians for 0 <= n <= d, d > 0
AtanRatio(n, d) ==
    LET z == (n * 1000) \div d
    IN  (7854 * z) \div 10000 + (273 * z * (1000 - z)) \div 1000000

\* Math.atan2(y, x) in milliradians, in (-pi, pi]
atan2(y, x) ==
    LET q == Abs(y)
        p == Abs(x)
        A == IF q = 0 /\ p = 0 THEN 0
             ELSE IF q <= p THEN AtanRatio(q, p)
             ELSE HalfPiMrad - AtanRatio(p, q)
    IN  IF x >= 0 /\ y >= 0 THEN A
        ELSE IF x >= 0 THEN 0 - A
        ELSE IF y >= 0 THEN PiMrad - A
        ELSE A - PiMrad

\* floor division that also takes a negative numerator
FloorDiv(a, b) == IF a >= 0 THEN a \div b ELSE 0 - ((0 - a + b - 1) \div b)

\* getBearing of the delivery route view, in millidegrees
getBearing(lat1, lon1, lat2, lon2) ==
    LET brng == atan2(lon2 - lon1, lat2 - lat1)
    IN  (FloorDiv(brng * 180, NEARBY_DISTANCE_METERS) + 360000) % 360000

\* getBearing of the mis-rutas page, in millidegrees
getBearingPage(lat1, lon1, lat2, lon2) ==
    LET brng == atan2(lon2 - lon1, lat2 - lat1)
    IN  (FloorDiv(brng * 180 * 1000, PiMrad) + 360000) % 360000

(* ------------------------------- state -------------------------------- *)
VARIABLES
    users,            \* user store: Agents -> optional user document
    calls,            \* updateUserLocation invocations, in the order started
    assignedTo,       \* order store: OrderIds -> agent the order is assigned to
    mounted,          \* the tracking view is mounted
    sessionUserId,    \* the agent the view tracks
    orders,           \* view state: the agent's orders
    notifiedOrderIds, \* view state: orders already notified
    error,            \* view state: optional error message
    lastPosition,     \* view ref: optional previous fix
    watch,            \* optional active watchPosition subscription: the
                      \* orders and notifiedOrderIds its callback closed over
    fixLog,           \* history: fixes delivered, with the tracker's first marked
    sentByView,       \* history: nearby notifications per order sent by this view instance
    sentNow,          \* history: nearby notifications per order under its current assignment
    sinceStart,       \* history: fixes delivered to the current tracker instance
    nAssigns,         \* history: reassignments made
    encoded,          \* decodePolyline: the string to decode, as char codes
    path,             \* history: the path that was encoded into it
    decoder,          \* decodePolyline: index, lat, lng, points, returned
    orderDocs,        \* order store: OrderIds -> optional order document
    pendingOrders,    \* RoutePlanner state: the pending list, order ids
    routesForMap,     \* RoutePlanner state: the assigned routes
    isOptimizing,     \* RoutePlanner state
    optimizedPolyline,\* RoutePlanner state: optional encoded path
    optimizeCall,     \* optional handleOptimizeRoute awaiting its result:
                      \* the pendingOrders it closed over
    lastToast,        \* RoutePlanner: optional last toast shown
    nOrderOps,        \* history: changes made to the stores
    optInput,         \* optimizePharmacyRoute: input.orders, order ids
    optEnv,           \* optimizePharmacyRoute: what the services answer
    optResult,        \* optimizePharmacyRoute: optional outcome
    sends,            \* sendWhatsAppNotification calls, in the order started
    parked,           \* the tracking view on the second device
    cached,           \* connectDB: global.mongoose, conn and promise
    attempts,         \* mongoose.connect calls, in the order started
    dbCalls,          \* connectDB calls, in the order started
    mapProps,         \* MapComponent: the orders of its props
    mapDrawn,         \* MapComponent: optional outcome of the render effect
    accounts,         \* user store: the users created, with cedula and phone
    creates           \* createUser calls, in the order started

vars == <<users, calls, assignedTo, mounted, sessionUserId, orders,
          notifiedOrderIds, error, lastPosition, watch, fixLog, sentByView,
          sentNow, sinceStart, nAssigns, encoded, path, decoder,
          orderDocs, pendingOrders, routesForMap, isOptimizing,
          optimizedPolyline, optimizeCall, lastToast, nOrderOps,
          optInput, optEnv, optResult, sends, parked,
          cached, attempts, dbCalls, mapProps, mapDrawn, accounts, creates>>

coreVars == <<users, calls, assignedTo, mounted, sessionUserId, orders,
              notifiedOrderIds, error, lastPosition, watch, fixLog,
              sentByView, sentNow, sinceStart, nAssigns>>
polylineVars == <<encoded, path, decoder>>
storeVars == <<orderDocs, nOrderOps>>
plannerVars == <<pendingOrders, routesForMap, isOptimizing,
                 optimizedPolyline, optimizeCall, lastToast>>
optimizeVars == <<optInput, optEnv, optResult>>
notifyVars == <<sends>>
deviceVars == <<parked>>
dbVars == <<cached, attempts, dbCalls>>
mapVars == <<mapProps, mapDrawn>>
accountVars == <<accounts, creates>>
restVars == <<dbVars, mapVars, accountVars>>
auxVars == <<polylineVars, storeVars, plannerVars, optimizeVars, notifyVars,
             deviceVars, restVars>>
exceptPolyline == <<coreVars, storeVars, plannerVars, optimizeVars,
                    notifyVars, deviceVars, restVars>>
exceptPlanner == <<coreVars, polylineVars, optimizeVars, notifyVars,
                   deviceVars, restVars>>
exceptOptimize == <<coreVars, polylineVars, storeVars, plannerVars,
                    notifyVars, deviceVars, restVars>>
exceptNotify == <<coreVars, polylineVars, storeVars, plannerVars,
                  optimizeVars, deviceVars, restVars>>
firstVars == <<coreVars, polylineVars, storeVars, plannerVars, optimizeVars,
               notifyVars, deviceVars>>
exceptDb == <<firstVars, mapVars, accountVars>>
exceptMap == <<firstVars, dbVars, accountVars>>
exceptAccounts == <<firstVars, dbVars, mapVars>>

serverVars == <<users, calls>>
viewVars == <<mounted, sessionUserId, orders, notifiedOrderIds, error,
              lastPosition, watch>>
histVars == <<fixLog, sentByView, sentNow, sinceStart>>
countVars == <<nAssigns>>

GEO_ERROR == "No se pudo obtener la ubicacion."

NewUser == [status |-> "offline", currentLocation |-> NULL, bearing |-> 0]

\* ascending sequence of the members of a set of order ids
RECURSIVE SortedSeq(_)
SortedSeq(S) ==
    IF S = {} THEN <<>>
    ELSE LET m == CHOOSE x \in S : \A y \in S : x <= y
         IN  <<m>> \o SortedSeq(S \ {m})

\* the orders assigned to a delivery person, as the server returns them
getOrdersByDeliveryPerson(a, asg) == SortedSeq({o \in OrderIds : asg[o] = a})

(* ------------------------ proximity notifier -------------------------- *)
\* order.deliveryLocation.lat && order.deliveryLocation.lng
hasCoordinates(o) ==
    LET loc == deliveryLocation(o)
    IN  /\ ~IsNull(loc.lat) /\ Val(loc.lat) # 0
        /\ ~IsNull(loc.lng) /\ Val(loc.lng) # 0

\* the condition under which the forEach body notifies order o
isNearby(o, latitude, longitude, capturedNotified) ==
    /\ hasCoordinates(o)
    /\ o \notin capturedNotified
    /\ getDistance(latitude, longitude, Val(deliveryLocation(o).lat),
                   Val(deliveryLocation(o).lng)) <= NEARBY_DISTANCE_METERS

\* faulty variant: the loop ends at the first order without coordinates
RECURSIVE nearbyOrders_StopAtMissing(_, _, _, _)
nearbyOrders_StopAtMissing(ords, latitude, longitude, capturedNotified) ==
    IF ords = <<>> \/ ~hasCoordinates(Head(ords)) THEN <<>>
    ELSE (IF isNearby(Head(ords), latitude, longitude, capturedNotified)
          THEN <<Head(ords)>> ELSE <<>>)
         \o nearbyOrders_StopAtMissing(Tail(ords), latitude, longitude, capturedNotified)

\* the orders the callback notifies for one fix, in forEach order
RECURSIVE nearbyOrders(_, _, _, _)
nearbyOrders(ords, latitude, longitude, capturedNotified) ==
    IF ords = <<>> THEN <<>>
    ELSE (IF isNearby(Head(ords), latitude, longitude, capturedNotified)
          THEN <<Head(ords)>> ELSE <<>>)
         \o nearbyOrders(Tail(ords), latitude, longitude, capturedNotified)

\* faulty variant: the new set is built from the set the callback closed over
addNotified_Stale(prev, captured, id) == captured \cup {id}

\* prev => new Set(prev).add(order.id)
addNotified(prev, captured, id) == prev \cup {id}

\* the state after the queued updaters of one callback have run in order
RECURSIVE applyUpdaters(_, _, _)
applyUpdaters(prev, captured, ids) ==
    IF ids = <<>> THEN prev
    ELSE applyUpdaters(addNotified(prev, captured, Head(ids)), captured, Tail(ids))

Count(seq, x) == Cardinality({i \in 1..Len(seq) : seq[i] = x})

(* --------------------------- position tracker ------------------------- *)
\* bearing sent with a fix by the delivery route view
bearingFor(last, latitude, longitude) ==
    IF IsNull(last) THEN 0
    ELSE getBearing(Val(last).lat, Val(last).lng, latitude, longitude)

\* bearing sent with a fix by the mis-rutas page
bearingForPage(last, latitude, longitude) ==
    IF IsNull(last) THEN 0
    ELSE getBearingPage(Val(last).lat, Val(last).lng, latitude, longitude)

\* faulty variant: the previous fix is stored once and never replaced
nextLastPosition_KeepFirst(last, latitude, longitude) ==
    IF IsNull(last) THEN Some(Pt(latitude, longitude)) ELSE last

\* lastPosition.current after a fix
nextLastPosition(last, latitude, longitude) == Some(Pt(latitude, longitude))

NewCall(u, latitude, longitude, bearing) ==
    [userId |-> u, lat |-> latitude, lng |-> longitude, bearing |-> bearing,
     pc |-> "connect", result |-> "pending"]

LogFix(p) == Append(fixLog, [lat |-> p.lat, lng |-> p.lng,
                             first |-> sinceStart = 0])

\* the subscription the watchPosition effect leaves behind
subscribe(uid, ords, notified) ==
    IF ords = <<>> THEN NULL
    ELSE Some([orders |-> ords, notifiedOrderIds |-> notified])

\* the subscription of the mis-rutas page: its callback closes over nothing
\* but the session user
subscribePage(uid) == Some([orders |-> <<>>, notifiedOrderIds |-> {}])

NoneSent == [o \in OrderIds |-> 0]

(* ---------------------- DeliveryRouteView actions --------------------- *)
\* the server page renders the view for the session user; first render and
\* first run of the effects
Mount(a) ==
    /\ ~mounted
    /\ ~IsNull(users[a])
    /\ mounted' = TRUE
    /\ sessionUserId' = a
    /\ orders' = getOrdersByDeliveryPerson(a, assignedTo)
    /\ notifiedOrderIds' = {}
    /\ error' = NULL
    /\ lastPosition' = NULL
    /\ watch' = subscribe(a, orders', {})
    /\ sentByView' = NoneSent
    /\ sinceStart' = 0
    /\ UNCHANGED <<auxVars, serverVars, assignedTo, fixLog, sentNow, nAssigns>>

\* faulty variant: the cleanup leaves the subscription in place
clearWatch_Leak(w) == w

\* navigator.geolocation.clearWatch(watchId): the subscription is gone
clearWatch(w) == NULL

\* unmount: the effect cleanup clears the watch, the state is dropped
Unmount ==
    /\ mounted
    /\ mounted' = FALSE
    /\ orders' = <<>>
    /\ notifiedOrderIds' = {}
    /\ error' = NULL
    /\ lastPosition' = NULL
    /\ watch' = clearWatch(watch)
    /\ UNCHANGED <<auxVars, serverVars, assignedTo, sessionUserId, histVars, countVars>>

\* server revalidation hands new initialOrders to the view: setOrders
Revalidate ==
    /\ mounted
    /\ orders' = getOrdersByDeliveryPerson(sessionUserId, assignedTo)
    /\ orders' # orders
    /\ UNCHANGED <<auxVars, serverVars, assignedTo, mounted, sessionUserId,
                   notifiedOrderIds, error, lastPosition, watch, histVars,
                   countVars>>

\* re-render after a state change: cleanup and re-run of the watch effect
Render ==
    /\ mounted
    /\ watch' = subscribe(sessionUserId, orders, notifiedOrderIds)
    /\ watch' # watch
    /\ UNCHANGED <<auxVars, serverVars, assignedTo, mounted, sessionUserId, orders,
                   notifiedOrderIds, error, lastPosition, histVars, countVars>>

\* watchPosition success callback of the subscription in force
PositionFix(p) ==
    /\ ~IsNull(watch)
    /\ Len(fixLog) < MaxFixes
    /\ LET w == Val(watch)
           bearing == bearingFor(lastPosition, p.lat, p.lng)
           fired == nearbyOrders(w.orders, p.lat, p.lng, w.notifiedOrderIds)
       IN  /\ calls' = Append(calls, NewCall(sessionUserId, p.lat, p.lng, bearing))
           /\ lastPosition' = nextLastPosition(lastPosition, p.lat, p.lng)
           /\ notifiedOrderIds' =
                  applyUpdaters(notifiedOrderIds, w.notifiedOrderIds, fired)
           /\ sentByView' = [o \in OrderIds |-> sentByView[o] + Count(fired, o)]
           /\ sentNow' = [o \in OrderIds |-> sentNow[o] + Count(fired, o)]
    /\ fixLog' = LogFix(p)
    /\ sinceStart' = sinceStart + 1
    /\ UNCHANGED <<auxVars, users, assignedTo, mounted, sessionUserId, orders, error,
                   watch, countVars>>

\* watchPosition error callback
PositionError ==
    /\ ~IsNull(watch)
    /\ error' = Some(GEO_ERROR)
    /\ UNCHANGED <<auxVars, serverVars, assignedTo, mounted, sessionUserId, orders,
                   notifiedOrderIds, lastPosition, watch, histVars, countVars>>

\* an order moves to another delivery person
handOver(o, a) ==
    /\ assignedTo[o] # a
    /\ assignedTo' = [assignedTo EXCEPT ![o] = a]
    /\ sentNow' = [sentNow EXCEPT ![o] = 0]
    /\ sentByView' = [sentByView EXCEPT ![o] = 0]
    /\ nAssigns' = nAssigns + 1
    /\ UNCHANGED <<auxVars, serverVars, viewVars, fixLog, sinceStart>>

\* an operator moves an order to another delivery person
assign(o, a) ==
    /\ nAssigns < MaxAssigns
    /\ handOver(o, a)

InitCommon ==
    /\ users = [a \in Agents |-> Some(NewUser)]
    /\ calls = <<>>
    /\ mounted = FALSE
    /\ sessionUserId = "d1"
    /\ orders = <<>>
    /\ notifiedOrderIds = {}
    /\ error = NULL
    /\ lastPosition = NULL
    /\ watch = NULL
    /\ fixLog = <<>>
    /\ sentByView = NoneSent
    /\ sentNow = NoneSent
    /\ sinceStart = 0
    /\ nAssigns = 0

\* let index = 0, lat = 0, lng = 0, points = [] (map-component.tsx:102-104)
NewDecoder == [index |-> 0, lat |-> 0, lng |-> 0, points |-> <<>>,
               returned |-> FALSE]

\* no polyline is being decoded
IdlePolyline == encoded = <<>> /\ path = <<>> /\ decoder = NewDecoder

\* no orders, an empty planner
IdlePlanner ==
    /\ orderDocs = [o \in OrderIds |-> NULL]
    /\ nOrderOps = 0
    /\ pendingOrders = <<>>
    /\ routesForMap = {}
    /\ isOptimizing = FALSE
    /\ optimizedPolyline = NULL
    /\ optimizeCall = NULL
    /\ lastToast = NULL

\* optimizePharmacyRoute is not called
IdleOptimize == optInput = <<>> /\ optEnv = NULL /\ optResult = NULL

\* no notification is being sent
IdleNotify == sends = <<>>

\* a view instance that is not mounted
NewView(a) ==
    [mounted |-> FALSE, sessionUserId |-> a, orders |-> <<>>,
     notifiedOrderIds |-> {}, error |-> NULL, lastPosition |-> NULL,
     watch |-> NULL, sentByView |-> NoneSent, sinceStart |-> 0]

\* the second device shows no tracking view
IdleDevice == parked = NewView("d2")

\* connectDB was never called: cached = { conn: null, promise: null }
NewCache == [conn |-> NULL, promise |-> NULL]

IdleDb == cached = NewCache /\ attempts = <<>> /\ dbCalls = <<>>

\* no map is shown
IdleMap == mapProps = <<>> /\ mapDrawn = NULL

\* no user is being created
IdleAccounts == accounts = <<>> /\ creates = <<>>

IdleRest == IdleDb /\ IdleMap /\ IdleAccounts

InitAux ==
    /\ IdlePolyline /\ IdlePlanner /\ IdleOptimize /\ IdleNotify /\ IdleDevice
    /\ IdleRest

\* the tracking view of a delivery person with assigned orders
Init ==
    /\ InitCommon
    /\ InitAux
    /\ assignedTo = [o \in OrderIds |-> "d1"]

Next ==
    \/ \E a \in Agents : Mount(a)
    \/ Unmount
    \/ Revalidate
    \/ Render
    \/ \E p \in Points : PositionFix(p)
    \/ PositionError
    \/ \E o \in OrderIds, a \in Agents : assign(o, a)

Spec == Init /\ [][Next]_vars

(* ------------------------ MisRutasPage actions ------------------------ *)
\* the page has fetched its session: the watch effect subscribes
PageMount(a) ==
    /\ ~mounted
    /\ mounted' = TRUE
    /\ sessionUserId' = a
    /\ orders' = <<>>
    /\ notifiedOrderIds' = {}
    /\ error' = NULL
    /\ lastPosition' = NULL
    /\ watch' = subscribePage(a)
    /\ sinceStart' = 0
    /\ UNCHANGED <<auxVars, serverVars, assignedTo, fixLog, sentByView, sentNow,
                   nAssigns>>

\* watchPosition success callback of the page
PagePositionFix(p) ==
    /\ ~IsNull(watch)
    /\ Len(calls) < MaxCalls
    /\ LET bearing == bearingForPage(lastPosition, p.lat, p.lng)
       IN  calls' = Append(calls, NewCall(sessionUserId, p.lat, p.lng, bearing))
    /\ lastPosition' = nextLastPosition(lastPosition, p.lat, p.lng)
    /\ fixLog' = LogFix(p)
    /\ sinceStart' = sinceStart + 1
    /\ UNCHANGED <<auxVars, users, assignedTo, mounted, sessionUserId, orders,
                   notifiedOrderIds, error, watch, sentByView, sentNow,
                   countVars>>

\* watchPosition error callback of the page
PagePositionError ==
    /\ ~IsNull(watch)
    /\ error' = Some(GEO_ERROR)
    /\ UNCHANGED <<auxVars, serverVars, assignedTo, mounted, sessionUserId, orders,
                   notifiedOrderIds, lastPosition, watch, histVars, countVars>>

(* --------------------------- server actions --------------------------- *)
\* faulty variant: the check rejects offline users only
acceptsLocation_NotOffline(user) == ~IsNull(user) /\ Val(user).status # "offline"

\* the status check of updateUserLocation on the document it has read
acceptsLocation(user) == ~IsNull(user) /\ Val(user).status = "in_route"

\* the document after the $set of updateUserLocation
locationWritten(doc, c) ==
    [doc EXCEPT !.currentLocation = Some(<<c.lng, c.lat>>),
                !.bearing = c.bearing,
                !.status = "in_route"]

SetCall(i, pc, result) ==
    calls' = [calls EXCEPT ![i].pc = pc, ![i].result = result]

\* updateUserLocation up to its decision: connectDB, findById, status check
LocationFind(i) ==
    /\ i \in 1..Len(calls)
    /\ calls[i].pc = "connect"
    /\ LET user == users[calls[i].userId]
       IN  IF IsNull(user) THEN SetCall(i, "done", "not_found")
           ELSE IF ~acceptsLocation(user) THEN SetCall(i, "done", "not_in_route")
           ELSE SetCall(i, "update", "pending")
    /\ UNCHANGED <<auxVars, users, assignedTo, viewVars, histVars, countVars>>

\* updateUserLocation: findByIdAndUpdate and the return
LocationWrite(i) ==
    /\ i \in 1..Len(calls)
    /\ calls[i].pc = "update"
    /\ LET u == calls[i].userId
       IN  users' = IF IsNull(users[u]) THEN users
                    ELSE [users EXCEPT ![u] = Some(locationWritten(Val(users[u]), calls[i]))]
    /\ SetCall(i, "done", "success")
    /\ UNCHANGED <<auxVars, assignedTo, viewVars, histVars, countVars>>

\* updateUserLocation: connectDB or a query rejects, the catch block returns
LocationThrows(i) ==
    /\ i \in 1..Len(calls)
    /\ calls[i].pc \in {"connect", "update"}
    /\ SetCall(i, "done", "error")
    /\ UNCHANGED <<auxVars, users, assignedTo, viewVars, histVars, countVars>>

\* the document after the $set of updateUserStatus; a currentLocation of
\* undefined in the $set either clears the field or is dropped from the
\* update, depending on the driver (unsets)
statusWritten(doc, status, unsets) ==
    [doc EXCEPT !.status = status,
                !.currentLocation =
                    IF status = "offline" /\ unsets THEN NULL ELSE @]

updateUserStatus(u, status, unsets) ==
    /\ users' = IF IsNull(users[u]) THEN users
                ELSE [users EXCEPT ![u] = Some(statusWritten(Val(users[u]), status, unsets))]
    /\ UNCHANGED <<auxVars, calls, assignedTo, viewVars, histVars, countVars>>

deleteUser(u) ==
    /\ ~IsNull(users[u])
    /\ users' = [users EXCEPT ![u] = NULL]
    /\ UNCHANGED <<auxVars, calls, assignedTo, viewVars, histVars, countVars>>

\* the mis-rutas page of one delivery person and the user store
InitServer ==
    /\ InitCommon
    /\ InitAux
    /\ assignedTo = [o \in OrderIds |-> "d1"]

NextServer ==
    \/ PageMount("d1")
    \/ Unmount
    \/ \E p \in Points : PagePositionFix(p)
    \/ PagePositionError
    \/ \E i \in 1..MaxCalls + 1 : LocationFind(i)
    \/ \E i \in 1..MaxCalls + 1 : LocationWrite(i)
    \/ \E i \in 1..MaxCalls + 1 : LocationThrows(i)
    \/ \E status \in Statuses, unsets \in BOOLEAN :
           updateUserStatus("d1", status, unsets)
    \/ deleteUser("d1")

SpecServer == InitServer /\ [][NextServer]_vars

\* ---- optimizePharmacyRoute (geocode-address-flow.ts) ----

MaxStops == 2

\* geocodeAddress of one address: coordinates, a result whose lat or lng
\* is not a number, or an exception (no features, 403, non-2xx, network)
GeocodeOutcomes == {"ok", "invalid", "throws"}

RECURSIVE DistinctSeqs(_, _)
DistinctSeqs(S, n) ==
    IF n = 0 THEN {<<>>}
    ELSE LET shorter == DistinctSeqs(S, n - 1)
         IN  shorter \cup UNION {{Append(q, x) :
                                     x \in {y \in S : \A i \in 1..Len(q) :
                                                          q[i] # y}} :
                                  q \in shorter}

\* input.orders, each stop named by its order id
StopLists == DistinctSeqs(OrderIds, MaxStops)

\* the job ids of data.routes[0].steps; MaxStops is the id of no job
JobLists == DistinctSeqs(0..MaxStops, MaxStops + 1)

FailureKinds == {"rejects", "forbidden", "notOk", "badJson", "unassigned",
                 "noRoute"}

\* what the optimization endpoint answers
Responses ==
    {[kind |-> k, jobs |-> <<>>] : k \in FailureKinds}
    \cup {[kind |-> "routes", jobs |-> js] : js \in JobLists}

Envs == [apiKey : BOOLEAN,
         geo : [OrderIds -> GeocodeOutcomes],
         response : Responses]

\* route.steps: the vehicle's start, the jobs, its end
stepsOf(jobs) ==
    <<[type |-> "start", job_id |-> 0 - 1]>>
    \o [i \in 1..Len(jobs) |-> [type |-> "job", job_id |-> jobs[i]]]
    \o <<[type |-> "end", job_id |-> 0 - 1]>>

GEOMETRY == "route.geometry"

Failed(message, sent) ==
    [ok |-> FALSE, optimizedRoute |-> <<>>, encodedPolyline |-> NULL,
     requestSent |-> sent, message |-> message]

Returned(route, polyline, sent) ==
    [ok |-> TRUE, optimizedRoute |-> route, encodedPolyline |-> polyline,
     requestSent |-> sent, message |-> ""]

\* orderCoords.filter(order => order.coords && typeof lat === 'number' ...)
validOrderCoords(input, geo) ==
    SelectSeq(input, LAMBDA o : geo[o] = "ok")

\* faulty variant: a request is sent even without a job
noValidCoords_Never(valid) == FALSE

\* validOrderCoords.length === 0
noValidCoords(valid) == Len(valid) = 0

\* faulty variant: stops numbered by their position among all the steps
optimizedRouteStops_StepIndex(steps, valid) ==
    LET kept == SelectSeq([i \in 1..Len(steps) |-> [step |-> steps[i], at |-> i]],
                          LAMBDA e : e.step.type = "job"
                                     /\ e.step.job_id \in 0..(Len(valid) - 1))
    IN  [i \in 1..Len(kept) |->
            [orderId |-> valid[kept[i].step.job_id + 1],
             stopNumber |-> kept[i].at]]

\* route.steps.filter(type === 'job' && validOrderCoords[job_id]).map(...)
optimizedRouteStops(steps, valid) ==
    LET jobSteps == SelectSeq(steps, LAMBDA st :
                        st.type = "job" /\ st.job_id \in 0..(Len(valid) - 1))
    IN  [i \in 1..Len(jobSteps) |->
            [orderId |-> valid[jobSteps[i].job_id + 1], stopNumber |-> i]]

\* the part of optimizePharmacyRoute after the request is sent
afterRequest(valid, response) ==
    CASE response.kind = "rejects" ->
            Failed("Route optimization failed: fetch failed", TRUE)
      [] response.kind = "forbidden" ->
            Failed("Route optimization failed: Forbidden", TRUE)
      [] response.kind = "badJson" ->
            Failed("Route optimization failed: invalid json", TRUE)
      [] response.kind = "notOk" ->
            Failed("Route optimization failed: API error", TRUE)
      [] response.kind = "routes" ->
            Returned(optimizedRouteStops(stepsOf(response.jobs), valid),
                     Some(GEOMETRY), TRUE)
      [] response.kind = "unassigned" ->
            Failed("Route optimization failed: unassigned", TRUE)
      [] OTHER ->
            Failed("Route optimization failed: no valid route", TRUE)

optimizePharmacyRoute(input, env) ==
    IF ~env.apiKey THEN Failed("API key is not configured", FALSE)
    ELSE IF Len(input) = 0 THEN Returned(<<>>, Some(""), FALSE)
    ELSE IF \E i \in 1..Len(input) : env.geo[input[i]] = "throws"
         THEN Failed("Route optimization failed: Geocoding failed", FALSE)
    ELSE LET valid == validOrderCoords(input, env.geo)
         IN  IF noValidCoords(valid)
             THEN Failed("Route optimization failed: No valid coordinates",
                         FALSE)
             ELSE afterRequest(valid, env.response)

\* one call of the server action
callOptimizePharmacyRoute ==
    /\ IsNull(optResult)
    /\ optResult' = Some(optimizePharmacyRoute(optInput, Val(optEnv)))
    /\ UNCHANGED <<exceptOptimize, optInput, optEnv>>

InitOptimize ==
    /\ InitCommon
    /\ assignedTo = [o \in OrderIds |-> "d1"]
    /\ IdlePolyline
    /\ IdlePlanner
    /\ IdleNotify
    /\ IdleDevice
    /\ IdleRest
    /\ optInput \in StopLists
    /\ optEnv \in {Some(e) : e \in Envs}
    /\ optResult = NULL

NextOptimize == callOptimizePharmacyRoute

SpecOptimize == InitOptimize /\ [][NextOptimize]_vars

\* ---- the order store, RutasPage and RoutePlanner ----

MaxOrderOps == 3

OrderStatuses == {"pending", "assigned", "in_transit", "delivered",
                  "cancelled"}

\* a new order is pending and has no delivery person
NewOrder == [status |-> "pending", assignedTo |-> NULL]

\* getUsers('delivery')
deliveryPeople(us) == {a \in Agents : ~IsNull(us[a])}

\* allOrders.filter(o => o.status === 'pending'), sorted by createdAt
initialPendingOrders(docs) ==
    SortedSeq({o \in OrderIds :
                  ~IsNull(docs[o]) /\ Val(docs[o]).status = "pending"})

\* the orders in transit or assigned that have a delivery person, by person
groupOrdersByDeliveryPerson(docs) ==
    [a \in Agents |->
        SortedSeq({o \in OrderIds :
                      /\ ~IsNull(docs[o])
                      /\ Val(docs[o]).status \in {"in_transit", "assigned"}
                      /\ Val(docs[o]).assignedTo = Some(a)})]

\* one route per entry of the grouping whose person is among the
\* delivery people; the other entries map to null and are filtered out
initialRoutesForMap(docs, us) ==
    LET assignedRoutes == groupOrdersByDeliveryPerson(docs)
    IN  {[deliveryPerson |-> a, orders |-> assignedRoutes[a]] :
            a \in {b \in deliveryPeople(us) : assignedRoutes[b] # <<>>}}

\* order ids are given out in sequence
createOrder ==
    /\ nOrderOps < MaxOrderOps
    /\ \E o \in OrderIds :
          /\ IsNull(orderDocs[o])
          /\ \A q \in OrderIds : q < o => ~IsNull(orderDocs[q])
          /\ orderDocs' = [orderDocs EXCEPT ![o] = Some(NewOrder)]
    /\ nOrderOps' = nOrderOps + 1
    /\ UNCHANGED <<exceptPlanner, plannerVars>>

\* the document of an order after updateOrderStatus: an assignment names
\* the delivery person, a return to pending drops it; only an order with
\* a delivery person goes in transit or is delivered
statusUpdated(doc, status, person) ==
    [doc EXCEPT !.status = status,
                !.assignedTo = IF status = "assigned" THEN Some(person)
                               ELSE IF status = "pending" THEN NULL
                               ELSE @]

orderUpdated(o, status, person) ==
    /\ nOrderOps < MaxOrderOps
    /\ ~IsNull(orderDocs[o])
    /\ person \in deliveryPeople(users)
    /\ status \in {"in_transit", "delivered"} =>
           ~IsNull(Val(orderDocs[o]).assignedTo)
    /\ orderDocs' = [orderDocs EXCEPT
                        ![o] = Some(statusUpdated(Val(@), status, person))]
    /\ nOrderOps' = nOrderOps + 1

updateOrderStatus(o, status, person) ==
    /\ orderUpdated(o, status, person)
    /\ UNCHANGED <<exceptPlanner, plannerVars>>

\* the page is rendered again and the planner's effect copies its props
RutasPage ==
    /\ pendingOrders' = initialPendingOrders(orderDocs)
    /\ routesForMap' = initialRoutesForMap(orderDocs, users)
    /\ UNCHANGED <<exceptPlanner, storeVars, isOptimizing, optimizedPolyline,
                   optimizeCall, lastToast>>

InitOrders ==
    /\ InitCommon
    /\ assignedTo = [o \in OrderIds |-> "d1"]
    /\ InitAux

NextOrders ==
    \/ createOrder
    \/ \E o \in OrderIds, status \in OrderStatuses, person \in Agents :
           updateOrderStatus(o, status, person)
    \/ \E a \in Agents : deleteUser(a)
    \/ RutasPage

SpecOrders == InitOrders /\ [][NextOrders]_vars

TOAST_OPTIMIZED == "Ruta Optimizada"
TOAST_FAILED == "Error de Optimizacion"
TOAST_ASSIGNED == "Pedido Asignado"

\* faulty variant: the button stays enabled while a request is in flight
triggerDisabled_EmptyOnly(optimizing, pending) == Len(pending) = 0

\* disabled={isOptimizing || pendingOrders.length === 0}
triggerDisabled(optimizing, pending) == optimizing \/ Len(pending) = 0

\* a click on the enabled button
handleOptimizeRoute ==
    /\ ~triggerDisabled(isOptimizing, pendingOrders)
    /\ isOptimizing' = TRUE
    /\ optimizedPolyline' = NULL
    /\ optimizeCall' = Some([pendingOrders |-> pendingOrders])
    /\ UNCHANGED <<exceptPlanner, storeVars, pendingOrders, routesForMap,
                   lastToast>>

\* result.optimizedRoute.map(stop => pendingOrders.find(...)).filter(o => !!o)
reorderedOrders(route, captured) ==
    LET found == SelectSeq(route, LAMBDA st : Count(captured, st.orderId) > 0)
    IN  [i \in 1..Len(found) |-> found[i].orderId]

\* faulty variant: the reorder is applied whatever the outcome
settledPending_Always(result, captured, current) ==
    reorderedOrders(result.optimizedRoute, captured)

\* the pending list once the call has settled: set in the try block only
settledPending(result, captured, current) ==
    IF result.ok THEN reorderedOrders(result.optimizedRoute, captured)
    ELSE current

\* what a call of optimizePharmacyRoute may settle with, by pending list
Outcomes ==
    [input \in DistinctSeqs(OrderIds, Cardinality(OrderIds)) |->
        {optimizePharmacyRoute(input, env) : env \in Envs}]

\* optimizePharmacyRoute settles and handleOptimizeRoute resumes
optimizeSettles ==
    /\ ~IsNull(optimizeCall)
    /\ LET captured == Val(optimizeCall).pendingOrders
       IN  \E result \in Outcomes[captured] :
              /\ pendingOrders' =
                     settledPending(result, captured, pendingOrders)
              /\ optimizedPolyline' = IF result.ok THEN result.encodedPolyline
                                      ELSE optimizedPolyline
              /\ lastToast' = IF result.ok THEN Some(TOAST_OPTIMIZED)
                              ELSE Some(TOAST_FAILED)
    /\ isOptimizing' = FALSE
    /\ optimizeCall' = NULL
    /\ UNCHANGED <<exceptPlanner, storeVars, routesForMap>>

\* the operator assigns a listed pending order to a delivery person
handleConfirmAssignment(o, person) ==
    /\ Count(pendingOrders, o) > 0
    /\ orderUpdated(o, "assigned", person)
    /\ lastToast' = Some(TOAST_ASSIGNED)
    /\ optimizedPolyline' = NULL
    /\ UNCHANGED <<exceptPlanner, pendingOrders, routesForMap, isOptimizing,
                   optimizeCall>>

\* the planner opened on three pending orders
InitPlanner ==
    /\ InitCommon
    /\ assignedTo = [o \in OrderIds |-> "d1"]
    /\ IdlePolyline
    /\ IdleOptimize
    /\ IdleNotify
    /\ IdleDevice
    /\ IdleRest
    /\ orderDocs = [o \in OrderIds |-> Some(NewOrder)]
    /\ nOrderOps = 0
    /\ pendingOrders = initialPendingOrders(orderDocs)
    /\ routesForMap = initialRoutesForMap(orderDocs, users)
    /\ isOptimizing = FALSE
    /\ optimizedPolyline = NULL
    /\ optimizeCall = NULL
    /\ lastToast = NULL

NextPlanner ==
    \/ handleOptimizeRoute
    \/ optimizeSettles
    \/ \E o \in OrderIds, person \in Agents : handleConfirmAssignment(o, person)
    \/ RutasPage

SpecPlanner == InitPlanner /\ [][NextPlanner]_vars

\* a request of handleOptimizeRoute that was started settles
SpecPlannerFair == SpecPlanner /\ WF_vars(optimizeSettles)

\* the planner opened on an empty store; orders are created while it is open
NextArrivals ==
    \/ createOrder
    \/ NextPlanner

SpecArrivals == InitOrders /\ [][NextArrivals]_vars

\* ---- sendWhatsAppNotification (lib/mongoose.ts) ----

MaxSends == 2

NotificationTypes == {"created", "in_transit", "nearby", "delivered"}

\* a call that has built its message and is about to fetch
NewSend(type, o) ==
    [type |-> type, order |-> o, pc |-> "fetch", promise |-> "pending",
     log |-> "sending", failure |-> "none"]

sendWhatsAppNotification(type, o) ==
    /\ Len(sends) < MaxSends
    /\ sends' = Append(sends, NewSend(type, o))
    /\ UNCHANGED exceptNotify

\* faulty variant: the catch block throws the error again
caught_Rethrow(c, failure) ==
    [c EXCEPT !.pc = "done", !.promise = "rejected", !.log = "error",
              !.failure = failure]

\* catch (error) { console.error(...) }: logged, not thrown again
caught(c, failure) ==
    [c EXCEPT !.pc = "done", !.promise = "resolved", !.log = "error",
              !.failure = failure]

\* fetch rejects: a network error
fetchRejects(i) ==
    /\ i \in 1..Len(sends)
    /\ sends[i].pc = "fetch"
    /\ sends' = [sends EXCEPT ![i] = caught(@, "network")]
    /\ UNCHANGED exceptNotify

\* fetch resolves with a response
fetchResponds(i, ok) ==
    /\ i \in 1..Len(sends)
    /\ sends[i].pc = "fetch"
    /\ sends' = [sends EXCEPT ![i].pc = IF ok THEN "json" ELSE "text"]
    /\ UNCHANGED exceptNotify

\* !response.ok: the body is read, or cannot be, and an error is thrown
textRead(i, readable) ==
    /\ i \in 1..Len(sends)
    /\ sends[i].pc = "text"
    /\ sends' = [sends EXCEPT ![i] =
                    caught(@, IF readable THEN "status" ELSE "statusBody")]
    /\ UNCHANGED exceptNotify

\* response.json(): the body parses, or the parse error is caught
jsonRead(i, parses) ==
    /\ i \in 1..Len(sends)
    /\ sends[i].pc = "json"
    /\ sends' = [sends EXCEPT ![i] =
                    IF parses
                    THEN [@ EXCEPT !.pc = "done", !.promise = "resolved",
                                   !.log = "success"]
                    ELSE caught(@, "body")]
    /\ UNCHANGED exceptNotify

InitNotify ==
    /\ InitCommon
    /\ assignedTo = [o \in OrderIds |-> "d1"]
    /\ InitAux

NextNotify ==
    \/ \E type \in NotificationTypes, o \in OrderIds :
           sendWhatsAppNotification(type, o)
    \/ \E i \in 1..MaxSends + 1 : fetchRejects(i)
    \/ \E i \in 1..MaxSends + 1, ok \in BOOLEAN : fetchResponds(i, ok)
    \/ \E i \in 1..MaxSends + 1, readable \in BOOLEAN : textRead(i, readable)
    \/ \E i \in 1..MaxSends + 1, parses \in BOOLEAN : jsonRead(i, parses)

SpecNotify == InitNotify /\ [][NextNotify]_vars

\* ---- two delivery people, each with the tracking view on a device ----

\* each device runs its own instance of DeliveryRouteView; the actions of
\* the view act on the device in hand, the other one is parked
SwitchDevice ==
    /\ parked' = [mounted |-> mounted, sessionUserId |-> sessionUserId,
                  orders |-> orders, notifiedOrderIds |-> notifiedOrderIds,
                  error |-> error, lastPosition |-> lastPosition,
                  watch |-> watch, sentByView |-> sentByView,
                  sinceStart |-> sinceStart]
    /\ mounted' = parked.mounted
    /\ sessionUserId' = parked.sessionUserId
    /\ orders' = parked.orders
    /\ notifiedOrderIds' = parked.notifiedOrderIds
    /\ error' = parked.error
    /\ lastPosition' = parked.lastPosition
    /\ watch' = parked.watch
    /\ sentByView' = parked.sentByView
    /\ sinceStart' = parked.sinceStart
    /\ UNCHANGED <<serverVars, assignedTo, fixLog, sentNow, countVars,
                   polylineVars, storeVars, plannerVars, optimizeVars,
                   notifyVars, restVars>>

\* a delivery person opens the view on the device in hand; nobody is
\* logged in on both devices
MountOwn ==
    /\ sessionUserId # parked.sessionUserId
    /\ Mount(sessionUserId)

MaxHandovers == 2

\* an order goes from one delivery person to the other, and back
reassign(o, a) ==
    /\ nAssigns < MaxHandovers
    /\ handOver(o, a)

\* both delivery people report from a place 100 m from stop 1
DevicePoints == {Pt(1100, 1000)}

NextDevices ==
    \/ MountOwn
    \/ Revalidate
    \/ Render
    \/ \E p \in DevicePoints : PositionFix(p)
    \/ \E o \in OrderIds, a \in Agents : reassign(o, a)
    \/ SwitchDevice

SpecDevices == Init /\ [][NextDevices]_vars

\* ---- decodePolyline (map-component.tsx) ----

MaxPathLen == 2

\* coordinates in units of 1e-5 degree
KnownPath == <<Pt(3850000, 0 - 12020000), Pt(4070000, 0 - 12095000),
               Pt(4325200, 0 - 12645300)>>

\* "_p~iF~ps|U_ulLnnqC_mqNvxq`@" as char codes
KnownEncoded == <<95, 112, 126, 105, 70, 126, 112, 115, 124, 85, 95, 117,
                  108, 76, 110, 110, 113, 67, 95, 109, 113, 78, 118, 120,
                  113, 96, 64>>

PathPoints == {KnownPath[1], KnownPath[2], KnownPath[3],
               Pt(0, 0), Pt(0 - 1, 1), Pt(16, 0 - 16)}

RECURSIVE SeqsUpTo(_, _)
SeqsUpTo(S, n) ==
    IF n = 0 THEN {<<>>}
    ELSE LET shorter == SeqsUpTo(S, n - 1)
         IN  shorter \cup {Append(q, x) : q \in shorter, x \in S}

Paths == SeqsUpTo(PathPoints, MaxPathLen) \cup {KnownPath}

\* the standard encoding of one signed value: shift left by one, invert
\* if negative, then 5-bit groups, lowest first, continuation bit 0x20,
\* offset 63
RECURSIVE encodeGroups(_)
encodeGroups(v) ==
    IF v >= 32 THEN <<(32 + (v % 32)) + 63>> \o encodeGroups(v \div 32)
    ELSE <<v + 63>>

encodeValue(d) == encodeGroups(IF d < 0 THEN 0 - (2 * d) - 1 ELSE 2 * d)

RECURSIVE encodeFrom(_, _, _)
encodeFrom(pts, prevLat, prevLng) ==
    IF pts = <<>> THEN <<>>
    ELSE encodeValue(pts[1].lat - prevLat)
         \o encodeValue(pts[1].lng - prevLng)
         \o encodeFrom(Tail(pts), pts[1].lat, pts[1].lng)

encodePolyline(pts) == encodeFrom(pts, 0, 0)

\* a 32-bit integer of the bitwise operators is the set of its one bits
Bit32 == 0..31

\* b & 0x1f of a char code minus 63 (negative for a char below '?')
low5(b) == {k \in 0..4 : ((b % 32) \div (2 ^ k)) % 2 = 1}

\* x << shift: the shift count is taken modulo 32, high bits are lost
shiftLeft(bits, shift) == {k + (shift % 32) : k \in bits} \cap Bit32

\* x >> 1, sign-propagating
shiftRight1(bits) ==
    {k - 1 : k \in bits \ {0}} \cup (IF 31 \in bits THEN {31} ELSE {})

RECURSIVE PowSum(_)
PowSum(S) ==
    IF S = {} THEN 0
    ELSE LET k == CHOOSE x \in S : TRUE IN (2 ^ k) + PowSum(S \ {k})

\* the signed value of a 32-bit pattern
toInt32(bits) ==
    IF 31 \in bits THEN 0 - 1 - PowSum((0..30) \ bits) ELSE PowSum(bits)

\* encoded.charCodeAt(i): NaN past the end of the string
charCodeAt(str, i) == IF i < Len(str) THEN Some(str[i + 1]) ELSE NULL

\* do { b = charCodeAt(index++) - 63; result |= (b & 0x1f) << shift;
\*      shift += 5 } while (b >= 0x20)
\* NaN & 0x1f is 0 and NaN >= 0x20 is false
\* faulty variant: the read that ends a value leaves the index in place
RECURSIVE readValue_NoAdvance(_, _, _, _)
readValue_NoAdvance(str, i, shift, result) ==
    LET c == charCodeAt(str, i)
        group == IF IsNull(c) THEN {} ELSE low5(Val(c) - 63)
        more == ~IsNull(c) /\ Val(c) - 63 >= 32
        result2 == result \cup shiftLeft(group, shift)
    IN  IF more THEN readValue_NoAdvance(str, i + 1, shift + 5, result2)
        ELSE [index |-> i, result |-> result2]

RECURSIVE readValue(_, _, _, _)
readValue(str, i, shift, result) ==
    LET c == charCodeAt(str, i)
        group == IF IsNull(c) THEN {} ELSE low5(Val(c) - 63)
        more == ~IsNull(c) /\ Val(c) - 63 >= 32
        result2 == result \cup shiftLeft(group, shift)
    IN  IF more THEN readValue(str, i + 1, shift + 5, result2)
        ELSE [index |-> i + 1, result |-> result2]

\* faulty variant: the sign bit of the value is not undone
delta_Unsigned(result) == toInt32(shiftRight1(result))

\* (result & 1) ? ~(result >> 1) : (result >> 1)
delta(result) ==
    LET half == toInt32(shiftRight1(result))
    IN  IF 0 \in result THEN 0 - half - 1 ELSE half

\* one pass of while (index < len): a latitude, a longitude, one point
decodeStep ==
    /\ ~decoder.returned
    /\ decoder.index < Len(encoded)
    /\ LET rLat == readValue(encoded, decoder.index, 0, {})
           lat2 == decoder.lat + delta(rLat.result)
           rLng == readValue(encoded, rLat.index, 0, {})
           lng2 == decoder.lng + delta(rLng.result)
       IN  decoder' = [decoder EXCEPT !.index = rLng.index,
                                      !.lat = lat2,
                                      !.lng = lng2,
                                      !.points = Append(@, Pt(lat2, lng2))]
    /\ UNCHANGED <<exceptPolyline, encoded, path>>

\* index >= len: return points
decodeReturn ==
    /\ ~decoder.returned
    /\ decoder.index >= Len(encoded)
    /\ decoder' = [decoder EXCEPT !.returned = TRUE]
    /\ UNCHANGED <<exceptPolyline, encoded, path>>

\* decodePolyline called with the encoding of a path
InitPolyline ==
    /\ InitCommon
    /\ assignedTo = [o \in OrderIds |-> "d1"]
    /\ path \in Paths
    /\ encoded = encodePolyline(path)
    /\ decoder = NewDecoder
    /\ IdlePlanner
    /\ IdleOptimize
    /\ IdleNotify
    /\ IdleDevice
    /\ IdleRest

NextPolyline ==
    \/ decodeStep
    \/ decodeReturn

SpecPolyline == InitPolyline /\ [][NextPolyline]_vars

MaxStringLen == 3

\* char codes of '?' (0), '@' (1), '_' and '~' (continuation groups) and
\* '0' (below '?': the group is negative)
CharCodes == {63, 64, 95, 126, 48}

Prefixes(str) == {SubSeq(str, 1, n) : n \in 0..Len(str)}

\* any string: short ones over CharCodes, and an encoding cut anywhere
Strings == SeqsUpTo(CharCodes, MaxStringLen) \cup Prefixes(KnownEncoded)

\* decodePolyline called with any string
InitDecodeAny ==
    /\ InitCommon
    /\ assignedTo = [o \in OrderIds |-> "d1"]
    /\ path = <<>>
    /\ encoded \in Strings
    /\ decoder = NewDecoder
    /\ IdlePlanner
    /\ IdleOptimize
    /\ IdleNotify
    /\ IdleDevice
    /\ IdleRest

SpecDecodeAny == InitDecodeAny /\ [][NextPolyline]_vars

\* ---- connectDB (lib/mongoose.ts) ----

MaxDbCalls == 4

\* faulty variant: every call opens a connection of its own
startsAttempt_Always(c) == TRUE

\* if (!cached.promise)
startsAttempt(c) == IsNull(c.promise)

\* faulty variant: the rejected promise stays cached
resetPromise_Keep(c) == c

\* cached.promise = null, in the catch handler of the promise and in the
\* catch block around the await
resetPromise(c) == [c EXCEPT !.promise = NULL]

\* a call suspended at await cached.promise, attempt k being the promise
Awaiting(k) == [pc |-> "await", awaiting |-> k, result |-> "pending",
                conn |-> 0]

\* a call that has returned the connection opened by attempt k
ReturnedConn(k) == [pc |-> "done", awaiting |-> 0, result |-> "conn",
                    conn |-> k]

\* a call that has thrown the error of its attempt
Rejected == [pc |-> "done", awaiting |-> 0, result |-> "rejected", conn |-> 0]

\* the continuations of a settled promise run, in the microtask queue,
\* before any code that starts a new call
microtasksDrained ==
    \A i \in 1..Len(dbCalls) :
        dbCalls[i].pc = "await" => attempts[dbCalls[i].awaiting] = "pending"

\* connectDB up to its await
connectDB ==
    /\ Len(dbCalls) < MaxDbCalls
    /\ microtasksDrained
    /\ IF ~IsNull(cached.conn)
       THEN /\ dbCalls' = Append(dbCalls, ReturnedConn(Val(cached.conn)))
            /\ UNCHANGED <<cached, attempts>>
       ELSE LET starts == startsAttempt(cached)
                k == IF starts THEN Len(attempts) + 1 ELSE Val(cached.promise)
            IN  /\ attempts' = IF starts THEN Append(attempts, "pending")
                               ELSE attempts
                /\ cached' = [cached EXCEPT !.promise = Some(k)]
                /\ dbCalls' = Append(dbCalls, Awaiting(k))
    /\ UNCHANGED exceptDb

\* mongoose.connect resolves: the then handler logs and passes mongoose on
mongooseConnects(k) ==
    /\ k \in 1..Len(attempts)
    /\ attempts[k] = "pending"
    /\ attempts' = [attempts EXCEPT ![k] = "resolved"]
    /\ UNCHANGED <<exceptDb, cached, dbCalls>>

\* mongoose.connect rejects: the catch handler resets the promise, rethrows
mongooseFails(k) ==
    /\ k \in 1..Len(attempts)
    /\ attempts[k] = "pending"
    /\ attempts' = [attempts EXCEPT ![k] = "rejected"]
    /\ cached' = resetPromise(cached)
    /\ UNCHANGED <<exceptDb, dbCalls>>

\* connectDB after its await: cached.conn is set, or the catch block runs
resumeConnectDB(i) ==
    /\ i \in 1..Len(dbCalls)
    /\ dbCalls[i].pc = "await"
    /\ LET k == dbCalls[i].awaiting
       IN  /\ attempts[k] # "pending"
           /\ IF attempts[k] = "resolved"
              THEN /\ cached' = [cached EXCEPT !.conn = Some(k)]
                   /\ dbCalls' = [dbCalls EXCEPT ![i] = ReturnedConn(k)]
              ELSE /\ cached' = resetPromise(cached)
                   /\ dbCalls' = [dbCalls EXCEPT ![i] = Rejected]
    /\ UNCHANGED <<exceptDb, attempts>>

NextDb ==
    \/ connectDB
    \/ \E k \in 1..MaxDbCalls + 1 : mongooseConnects(k)
    \/ \E k \in 1..MaxDbCalls + 1 : mongooseFails(k)
    \/ \E i \in 1..MaxDbCalls + 1 : resumeConnectDB(i)

SpecDb == Init /\ [][NextDb]_vars

\* ---- createUser (user-actions.ts) and the user schema ----

MaxCreates == 2

Cedulas == {"10001", "10002"}
Phones == {"3000000001", "3000000002"}

\* the form data: well-formed values, or data UserCreateSchema rejects
Forms == [cedula : Cedulas, phone : Phones, valid : BOOLEAN]

\* new UserModel({..., status: role === 'delivery' ? 'offline' : 'offline'})
NewAccount(form) ==
    [cedula |-> form.cedula, phone |-> form.phone, status |-> "offline"]

\* UserModel.findOne({ $or: [{ cedula }, { phone }] }): the documents found
existingUsers(accts, form) ==
    SelectSeq(accts, LAMBDA a : a.cedula = form.cedula \/ a.phone = form.phone)

\* the unique indexes of UserSchema: cedula is the only unique path
duplicateKey(accts, doc) ==
    \E j \in 1..Len(accts) : accts[j].cedula = doc.cedula

Settled(c, result) == [c EXCEPT !.pc = "done", !.result = result]

\* createUser up to its first await
createUser(form) ==
    /\ Len(creates) < MaxCreates
    /\ creates' = Append(creates,
                     IF form.valid
                     THEN [form |-> form, pc |-> "find", result |-> "pending"]
                     ELSE [form |-> form, pc |-> "done", result |-> "invalid"])
    /\ UNCHANGED <<exceptAccounts, accounts>>

\* the findOne for an existing user and the two checks on its result
createFinds(i) ==
    /\ i \in 1..Len(creates)
    /\ creates[i].pc = "find"
    /\ LET found == existingUsers(accounts, creates[i].form)
       IN  creates' = [creates EXCEPT ![i] =
               IF found = <<>> THEN [@ EXCEPT !.pc = "save"]
               ELSE IF found[1].cedula = @.form.cedula
                    THEN Settled(@, "cedula")
                    ELSE Settled(@, "phone")]
    /\ UNCHANGED <<exceptAccounts, accounts>>

\* newUser.save(): a duplicate key error (code 11000) or the insert
createSaves(i) ==
    /\ i \in 1..Len(creates)
    /\ creates[i].pc = "save"
    /\ LET doc == NewAccount(creates[i].form)
       IN  IF duplicateKey(accounts, doc)
           THEN /\ creates' = [creates EXCEPT ![i] = Settled(@, "cedula")]
                /\ UNCHANGED accounts
           ELSE /\ creates' = [creates EXCEPT ![i] = Settled(@, "success")]
                /\ accounts' = Append(accounts, doc)
    /\ UNCHANGED exceptAccounts

\* connectDB or the database throws: the catch block answers
createThrows(i) ==
    /\ i \in 1..Len(creates)
    /\ creates[i].pc \in {"find", "save"}
    /\ creates' = [creates EXCEPT ![i] = Settled(@, "error")]
    /\ UNCHANGED <<exceptAccounts, accounts>>

NextAccounts ==
    \/ \E form \in Forms : createUser(form)
    \/ \E i \in 1..MaxCreates + 1 : createFinds(i)
    \/ \E i \in 1..MaxCreates + 1 : createSaves(i)
    \/ \E i \in 1..MaxCreates + 1 : createThrows(i)

SpecAccounts == Init /\ [][NextAccounts]_vars

\* ---- the render effect of MapComponent (map-component.tsx) ----

MaxMapOrders == 2

\* deliveryLocation of an order on the map: both coordinates, one or both
\* missing, or a latitude of 0
MapLocations ==
    {[lat |-> Some(4500), lng |-> Some(0 - 75000)],
     [lat |-> NULL,       lng |-> Some(0 - 75000)],
     [lat |-> Some(4500), lng |-> NULL],
     [lat |-> NULL,       lng |-> NULL],
     [lat |-> Some(0),    lng |-> Some(0 - 75000)]}

MapOrderLists == SeqsUpTo(MapLocations, MaxMapOrders)

\* the props: at most one assigned route, the pending orders, whether an
\* optimized polyline is given, and whether the Leaflet map exists
MapProps ==
    [routes : SeqsUpTo(MapOrderLists, 1), pendingOrders : MapOrderLists,
     optimizedPolyline : BOOLEAN, mapReady : BOOLEAN]

\* the truth value of an optional number: undefined, null and 0 are falsy
truthy(c) == ~IsNull(c) /\ Val(c) # 0

\* order.deliveryLocation.lat && order.deliveryLocation.lng
marked(loc) == truthy(loc.lat) /\ truthy(loc.lng)

\* !order.deliveryLocation.lat || !order.deliveryLocation.lng
withoutCoords(loc) == ~truthy(loc.lat) \/ ~truthy(loc.lng)

\* routes.flatMap(r => r.orders)
RECURSIVE flatOrders(_)
flatOrders(routes) ==
    IF routes = <<>> THEN <<>> ELSE Head(routes) \o flatOrders(Tail(routes))

\* which orders of a list get a marker
markersOf(ords) == [i \in 1..Len(ords) |-> marked(ords[i])]

\* the warning toast: the number of orders without coordinates, if any
missingToast(allOrdersOnMap) ==
    LET ordersWithoutCoords == SelectSeq(allOrdersOnMap, withoutCoords)
    IN  IF Len(ordersWithoutCoords) > 0 THEN Some(Len(ordersWithoutCoords))
        ELSE NULL

\* one run of the effect; without a map it returns at once
renderMap ==
    /\ ~IsNull(mapProps)
    /\ IsNull(mapDrawn)
    /\ LET props == Val(mapProps)
           allOrdersOnMap == flatOrders(props.routes) \o props.pendingOrders
       IN  mapDrawn' =
              IF ~props.mapReady
              THEN Some([drawn |-> FALSE, pendingMarkers |-> <<>>,
                         routeMarkers |-> <<>>, toast |-> NULL])
              ELSE Some([drawn |-> TRUE,
                         pendingMarkers |-> markersOf(props.pendingOrders),
                         routeMarkers |-> markersOf(flatOrders(props.routes)),
                         toast |-> missingToast(allOrdersOnMap)])
    /\ UNCHANGED <<exceptMap, mapProps>>

InitMap ==
    /\ InitCommon
    /\ assignedTo = [o \in OrderIds |-> "d1"]
    /\ IdlePolyline
    /\ IdlePlanner
    /\ IdleOptimize
    /\ IdleNotify
    /\ IdleDevice
    /\ IdleDb
    /\ IdleAccounts
    /\ mapProps \in {Some(props) : props \in MapProps}
    /\ mapDrawn = NULL

NextMap == renderMap

SpecMap == InitMap /\ [][NextMap]_vars

(* ------------------------------ claims -------------------------------- *)
\* a step that delivers a fix to the view's callback
FixStep == Len(fixLog') = Len(fixLog) + 1 /\ ~IsNull(watch)
TheFix == fixLog'[Len(fixLog')]

Geocoded(o) ==
    /\ deliveryLocation(o).lat # NULL
    /\ deliveryLocation(o).lng # NULL

\* square of the distance between a fix and a geocoded order, in metres
Dist2(f, o) ==
    (f.lat - deliveryLocation(o).lat[1]) * (f.lat - deliveryLocation(o).lat[1])
    + (f.lng - deliveryLocation(o).lng[1]) * (f.lng - deliveryLocation(o).lng[1])

WithinRadius(f, o) == Dist2(f, o) <= 300 * 300

InSeq(o, seq) == \E i \in 1..Len(seq) : seq[i] = o

\* C1: one view instance sends the nearby notification of a stop at most
\* once while the stop stays assigned to its agent, whatever the timing of
\* the fixes relative to the re-render.
C1_AtMostOncePerView == \A o \in OrderIds : sentByView[o] <= 1

\* C2: once the agent is offline, the write of a location update leaves
\* the stored user as it is.
C2_NoWriteAfterOffline ==
    [][\A i \in 1..Len(calls) :
          (/\ calls[i].pc = "update"
           /\ calls'[i].pc = "done"
           /\ users[calls[i].userId] # NULL
           /\ users[calls[i].userId][1].status = "offline")
          => users' = users]_vars

\* C3: a call whose status check reads no user or a status other than
\* in_route ends with success:false without changing the user store, and a
\* call changes the store only in the write that follows a check that read
\* in_route.
C3_RejectedUnlessInRoute ==
    [][\A i \in 1..Len(calls) :
          calls'[i] # calls[i] =>
             /\ (/\ calls[i].pc = "connect"
                 /\ \/ users[calls[i].userId] = NULL
                    \/ users[calls[i].userId][1].status # "in_route")
                => /\ calls'[i].pc = "done"
                   /\ calls'[i].result \in {"not_found", "not_in_route", "error"}
                   /\ users' = users
             /\ users' # users
                => /\ calls[i].pc = "update"
                   /\ calls'[i].result = "success"]_vars

C3_Witness ==
    /\ \E i \in 1..Len(calls) : calls[i].result = "not_in_route"
    /\ \E i \in 1..Len(calls) : calls[i].result = "not_found"

\* C4: when every location update of an agent has completed successfully
\* and a location is stored, it is the one of the last fix sent.
C4_LastFixStored ==
    \A u \in Agents :
       LET mine == {i \in 1..Len(calls) : calls[i].userId = u}
           last == CHOOSE i \in mine : \A j \in mine : j <= i
       IN  (/\ mine # {}
            /\ \A i \in mine : calls[i].pc = "done" /\ calls[i].result = "success"
            /\ users[u] # NULL
            /\ users[u][1].currentLocation # NULL)
           => /\ users[u][1].currentLocation[1] = <<calls[last].lng, calls[last].lat>>
              /\ users[u][1].bearing = calls[last].bearing

\* C5: with the watcher re-subscribed on the current state, a fix sends no
\* notification for a stop that was already notified under its assignment.
C5_NotifiedStaysNotified ==
    [][\A o \in OrderIds :
          (/\ sentNow[o] >= 1
           /\ assignedTo'[o] = assignedTo[o]
           /\ watch # NULL
           /\ watch[1].notifiedOrderIds = notifiedOrderIds)
          => sentNow'[o] <= sentNow[o]]_vars

\* C6: a fix notifies a geocoded stop of the agent that this view has not
\* notified yet exactly when the stop is at most 300 m away, and notifies
\* no stop that it has notified before.
C6_FiresIffWithinRadius ==
    [][FixStep =>
          \A o \in OrderIds :
             (/\ InSeq(o, watch[1].orders)
              /\ assignedTo[o] = sessionUserId
              /\ Geocoded(o))
             => sentByView'[o] - sentByView[o] =
                   IF sentByView[o] = 0 /\ WithinRadius(TheFix, o) THEN 1 ELSE 0]_vars

\* C7: a fix notifies every geocoded stop of the subscription that is not
\* in its notified set and is at most 300 m away, once each, and all of
\* them are in the notified set afterwards.
C7_BatchAllNotified ==
    [][FixStep =>
          \A o \in OrderIds :
             (/\ InSeq(o, watch[1].orders)
              /\ Geocoded(o)
              /\ o \notin watch[1].notifiedOrderIds
              /\ WithinRadius(TheFix, o))
             => /\ sentNow'[o] = sentNow[o] + 1
                /\ o \in notifiedOrderIds']_vars

C7_Witness ==
    /\ Len(fixLog) = 1
    /\ sentNow[1] = 1 /\ sentNow[3] = 1
    /\ notifiedOrderIds = {1, 3}

\* C8: a stop without coordinates is never notified and never enters the
\* notified set, and the stops that follow it in the list are still
\* notified by the same fix.
C8_UngeocodedSkipped ==
    [][/\ \A o \in OrderIds :
            ~Geocoded(o) => sentNow'[o] = 0 /\ o \notin notifiedOrderIds'
       /\ FixStep =>
            /\ Len(calls') = Len(calls) + 1
            /\ \A i \in 1..Len(watch[1].orders), j \in 1..Len(watch[1].orders) :
                  (/\ i < j
                   /\ ~Geocoded(watch[1].orders[i])
                   /\ Geocoded(watch[1].orders[j])
                   /\ watch[1].orders[j] \notin watch[1].notifiedOrderIds
                   /\ WithinRadius(TheFix, watch[1].orders[j]))
                  => sentNow'[watch[1].orders[j]] = sentNow[watch[1].orders[j]] + 1]_vars

C8_Witness ==
    /\ watch # NULL
    /\ watch[1].orders = <<1, 2, 3>>
    /\ sentNow[3] = 1
    /\ sentNow[2] = 0
    /\ \E k \in 1..Len(fixLog) : WithinRadius(fixLog[k], 1)

\* bearing in millidegrees from fix f to fix g, as the view computes it
ViewBearing(f, g) ==
    getBearing(f.lat, f.lng, g.lat, g.lng)

\* C9: every fix delivered has produced exactly one location update, in
\* order, carrying the position of the fix; the first update of a tracker
\* carries bearing 0, each later one the bearing from the fix just before
\* it, and the stored previous fix is the last fix.
C9_OneUpdatePerFix ==
    /\ Len(calls) = Len(fixLog)
    /\ \A k \in 1..Len(fixLog) :
          /\ calls[k].lat = fixLog[k].lat
          /\ calls[k].lng = fixLog[k].lng
          /\ calls[k].bearing =
                IF fixLog[k].first THEN 0 ELSE ViewBearing(fixLog[k - 1], fixLog[k])
    /\ (mounted /\ sinceStart > 0) =>
          lastPosition = <<[lat |-> fixLog[Len(fixLog)].lat,
                            lng |-> fixLog[Len(fixLog)].lng]>>

C9_Witness ==
    /\ Len(calls) = 3
    /\ sinceStart = 3
    /\ calls[1].bearing = 0
    /\ calls[2].bearing # calls[3].bearing
    /\ calls[3].bearing # 0

\* C10: while the view shows a location error, no location update and no
\* nearby notification is sent.
C10_SilentAfterError ==
    [][(error # NULL /\ error' # NULL)
          => (calls' = calls /\ sentNow' = sentNow)]_vars

C20_CompassBearing ==
    \A k \in 1..Len(fixLog) :
       ~fixLog[k].first =>
          LET f == fixLog[k - 1]
              g == fixLog[k]
              b == calls[k].bearing
          IN  /\ b >= 0 /\ b < 360000
              /\ (f.lng = g.lng /\ g.lat > f.lat) => b = 0
              /\ (f.lat = g.lat /\ g.lng > f.lng) => b = 90000
              /\ (f.lng = g.lng /\ g.lat < f.lat) => b = 180000
              /\ (f.lat = g.lat /\ g.lng < f.lng) => b = 270000
              /\ b = getBearingPage(f.lat, f.lng, g.lat, g.lng)

\* C19: decodePolyline inverts the standard polyline encoding: the points
\* it returns for the encoding of a path are the points of the path, and
\* the known string decodes to the three known points.
C19_DecodeInvertsEncode ==
    decoder.returned =>
        /\ decoder.points = path
        /\ encoded = KnownEncoded => decoder.points = KnownPath

C19_Witness ==
    /\ decoder.returned
    /\ path = KnownPath
    /\ encoded = KnownEncoded
    /\ decoder.points = KnownPath

\* C15: a stop whose address cannot be geocoded is left out and the
\* geocodable stops are still optimized: the request is sent, and a route
\* the service returns is returned without the ungeocodable stops.
C15_OneBadAddressDoesNotAbort ==
    (/\ ~IsNull(optResult)
     /\ Val(optEnv).apiKey
     /\ \E i \in 1..Len(optInput) : Val(optEnv).geo[optInput[i]] # "ok"
     /\ \E i \in 1..Len(optInput) : Val(optEnv).geo[optInput[i]] = "ok")
    => /\ Val(optResult).requestSent
       /\ Val(optEnv).response.kind = "routes" =>
             /\ Val(optResult).ok
             /\ \A k \in 1..Len(Val(optResult).optimizedRoute) :
                   Val(optEnv).geo[Val(optResult).optimizedRoute[k].orderId]
                       = "ok"

\* C16 as stated: when no stop of the request yields valid coordinates the
\* call fails and sends no request to the optimization service.
C16_FailsWithoutValidStop ==
    (/\ ~IsNull(optResult)
     /\ \A i \in 1..Len(optInput) : Val(optEnv).geo[optInput[i]] # "ok")
    => /\ ~Val(optResult).ok
       /\ ~Val(optResult).requestSent

\* C16 amended: when the request has at least one stop and none yields
\* valid coordinates the call fails, returns no route and sends no request;
\* a request without stops returns an empty route and sends no request.
C16_FailsWithoutValidStopOfSome ==
    (/\ ~IsNull(optResult)
     /\ \A i \in 1..Len(optInput) : Val(optEnv).geo[optInput[i]] # "ok")
    => /\ ~Val(optResult).requestSent
       /\ Val(optResult).optimizedRoute = <<>>
       /\ Len(optInput) > 0 => ~Val(optResult).ok
       /\ (Len(optInput) = 0 /\ Val(optEnv).apiKey) => Val(optResult).ok

C16_Witness ==
    /\ ~IsNull(optResult)
    /\ Val(optEnv).apiKey
    /\ Len(optInput) = 2
    /\ \A i \in 1..Len(optInput) : Val(optEnv).geo[optInput[i]] = "invalid"
    /\ Val(optEnv).response.kind = "routes"
    /\ ~Val(optResult).ok
    /\ ~Val(optResult).requestSent

IdsOf(seq) == {seq[i] : i \in 1..Len(seq)}

ActiveOrder(o) ==
    /\ ~IsNull(orderDocs[o])
    /\ Val(orderDocs[o]).status \in {"pending", "assigned", "in_transit"}

RECURSIVE RouteCount(_, _)
RouteCount(routes, o) ==
    IF routes = {} THEN 0
    ELSE LET r == CHOOSE x \in routes : TRUE
         IN  Count(r.orders, o) + RouteCount(routes \ {r}, o)

PlannerRebuilt ==
    /\ orderDocs' = orderDocs
    /\ users' = users
    /\ pendingOrders' = initialPendingOrders(orderDocs)
    /\ routesForMap' = initialRoutesForMap(orderDocs, users)

\* C12: in the planner state built from the stores, every pending,
\* assigned or in-transit order is in exactly one place: the pending list
\* or the route of one delivery person.
C12_ExactlyOnePlace ==
    [][PlannerRebuilt =>
          \A o \in OrderIds :
              ActiveOrder(o) =>
                  Count(pendingOrders', o) + RouteCount(routesForMap', o) = 1]_vars

OptimizeSettled == ~IsNull(optimizeCall) /\ IsNull(optimizeCall')

\* C13: when an optimization settles, the pending list holds the same set
\* of order ids as before: a result naming another set is not applied.
C13_SameIdsAfterOptimize ==
    [][OptimizeSettled => IdsOf(pendingOrders') = IdsOf(pendingOrders)]_vars

\* C14: when optimizePharmacyRoute fails, handleOptimizeRoute leaves the
\* pending list and the assigned routes as they were and reports the error.
C14_FailureLeavesLists ==
    [][(OptimizeSettled /\ lastToast' = Some(TOAST_FAILED))
          => /\ pendingOrders' = pendingOrders
             /\ routesForMap' = routesForMap
             /\ orderDocs' = orderDocs
             /\ ~isOptimizing']_vars

C14_Witness ==
    /\ lastToast = Some(TOAST_FAILED)
    /\ ~isOptimizing
    /\ IsNull(optimizeCall)
    /\ Len(pendingOrders) = 3

\* C18: sendWhatsAppNotification never escalates a failure: after a
\* network error, a non-2xx response or an unparsable body its promise is
\* resolved and the failure is only logged.
C18_FailureOnlyLogged ==
    \A i \in 1..Len(sends) :
        /\ sends[i].promise # "rejected"
        /\ sends[i].failure # "none" =>
              /\ sends[i].promise = "resolved"
              /\ sends[i].log = "error"

C18_Witness ==
    \E i \in 1..Len(sends) :
        /\ sends[i].failure = "body"
        /\ sends[i].promise = "resolved"

\* C17: a stop notified under one delivery person and reassigned to
\* another is not notified for the new one: the first fix of the new
\* person's tracker within 300 m of the stop sends a notification.
C17_ReassignedNotifiesAgain ==
    [][\A o \in OrderIds :
          (/\ FixStep
           /\ assignedTo[o] = sessionUserId
           /\ parked.sessionUserId # sessionUserId
           /\ parked.sentByView[o] >= 1
           /\ sentNow[o] = 0
           /\ InSeq(o, Val(watch).orders)
           /\ Geocoded(o)
           /\ WithinRadius(TheFix, o))
          => sentNow'[o] >= 1]_vars

\* a step of updateUserStatus that found the user and changed the document:
\* no call of updateUserLocation moves
StatusStep(u) ==
    /\ calls' = calls
    /\ ~IsNull(users[u])
    /\ ~IsNull(users'[u])
    /\ users'[u] # users[u]

\* C21: after updateUserStatus(u, 'offline') the stored user is offline
\* and has no currentLocation; for 'available' and 'in_route' the stored
\* currentLocation is the one from before.
C21_OfflineClearsLocation ==
    [][\A u \in Agents :
          StatusStep(u) =>
             /\ Val(users'[u]).status = "offline" =>
                   IsNull(Val(users'[u]).currentLocation)
             /\ Val(users'[u]).status # "offline" =>
                   Val(users'[u]).currentLocation
                       = Val(users[u]).currentLocation]_vars

\* the request orders that were geocoded, in request order
GeocodedStops == validOrderCoords(optInput, Val(optEnv).geo)

\* the job ids the service answered that name a geocoded stop
KnownJobs ==
    SelectSeq(Val(optEnv).response.jobs, LAMBDA j : j < Len(GeocodedStops))

\* optimizePharmacyRoute returned the stops of a route of the service
RouteReturned ==
    /\ ~IsNull(optResult)
    /\ Val(optResult).ok
    /\ Val(optResult).requestSent

\* C24: the stops returned are numbered 1..k in the order of the service's
\* job steps, each orderId is the request order whose geocoded index is the
\* step's job_id, every orderId belongs to the request, and the start and
\* end steps produce no stop.
C24_StopsFollowJobSteps ==
    RouteReturned =>
        LET route == Val(optResult).optimizedRoute
        IN  /\ Len(route) = Len(KnownJobs)
            /\ \A i \in 1..Len(route) :
                  /\ route[i].stopNumber = i
                  /\ route[i].orderId = GeocodedStops[KnownJobs[i] + 1]
                  /\ InSeq(route[i].orderId, optInput)

C24_Witness ==
    /\ RouteReturned
    /\ Len(Val(optResult).optimizedRoute) = 2
    /\ Val(optResult).optimizedRoute[1].orderId = optInput[2]
    /\ Len(Val(optEnv).response.jobs) = 3

\* C26: an order that entered the pending list while an optimization
\* request was in flight, and so was not part of the request, is still in
\* the list after the result is applied.
C26_ArrivalsSurviveOptimize ==
    [][OptimizeSettled =>
          \A o \in OrderIds :
             (/\ InSeq(o, pendingOrders)
              /\ ~InSeq(o, Val(optimizeCall).pendingOrders))
             => InSeq(o, pendingOrders')]_vars

\* C29: isOptimizing is true exactly while a request of handleOptimizeRoute
\* is in flight; a request in flight is ended only by its own settlement,
\* which leaves isOptimizing false whether it succeeded or failed; no
\* request starts while the trigger is disabled; and a request that was
\* started settles, so isOptimizing returns to false.
C29_OneRequestInFlight ==
    /\ [][/\ isOptimizing' <=> ~IsNull(optimizeCall')
          /\ ~IsNull(optimizeCall) =>
                \/ optimizeCall' = optimizeCall
                \/ IsNull(optimizeCall') /\ ~isOptimizing'
          /\ (IsNull(optimizeCall) /\ ~IsNull(optimizeCall')) =>
                ~(isOptimizing \/ Len(pendingOrders) = 0)]_vars
    /\ (isOptimizing ~> ~isOptimizing)

\* the fix starts the send of the nearby notification of stop o
SendStarted(o) == FixStep /\ sentByView'[o] > sentByView[o]

\* the step that starts the send of a stop puts the stop in the notified
\* set, and no step of the mounted view takes a stop out of it
NotifiedAtOnce ==
    \A o \in OrderIds :
       /\ SendStarted(o) => o \in notifiedOrderIds'
       /\ (mounted /\ mounted' /\ o \in notifiedOrderIds)
          => o \in notifiedOrderIds'

\* C28: a stop is in the notified set from the step that starts its send,
\* the outcome of the send, which the view never awaits, takes it out of
\* the set on no step, and no later fix sends the notification of a stop
\* of the notified set again.
C28_NotifiedWhateverOutcome ==
    [][/\ NotifiedAtOnce
       /\ \A o \in OrderIds :
             (FixStep /\ o \in notifiedOrderIds)
             => sentByView'[o] = sentByView[o]]_vars

\* C28, the part that does not depend on the subscription in force: the
\* stop is notified at once and stays so
C28_NotifiedAtOnce == [][NotifiedAtOnce]_vars

\* C30: decodePolyline returns for every string, the empty one and one cut
\* in the middle of a value included: a pass of the outer loop reads two
\* values and so advances the index by two at least, a read past the end
\* of the string ends the value, so that the index never exceeds the
\* length by more than two, and with the index at or past the end the
\* only step left is the return.
C30_DecodeTerminates ==
    [][decoder' # decoder =>
          \/ /\ decoder'.returned
             /\ decoder' = [decoder EXCEPT !.returned = TRUE]
             /\ decoder.index >= Len(encoded)
          \/ /\ ~decoder'.returned
             /\ decoder.index < Len(encoded)
             /\ decoder'.index >= decoder.index + 2
             /\ decoder'.index <= Len(encoded) + 2
             /\ Len(decoder'.points) = Len(decoder.points) + 1]_vars

C30_Witness ==
    /\ decoder.returned
    /\ Len(encoded) = MaxStringLen
    /\ decoder.index = Len(encoded) + 2
    /\ encoded[Len(encoded)] = 95

C29_Witness ==
    /\ ~isOptimizing
    /\ IsNull(optimizeCall)
    /\ lastToast = Some(TOAST_FAILED)
    /\ Len(pendingOrders) > 0

InFlight == {k \in 1..Len(attempts) : attempts[k] = "pending"}

\* C22: at most one mongoose.connect is in flight, the callers of connectDB
\* that got a connection all got the same one, the cached connection is
\* the one of an attempt that succeeded, and no attempt is started after
\* one has succeeded.
C22_OneCachedConnection ==
    /\ Cardinality(InFlight) <= 1
    /\ \A i, j \in 1..Len(dbCalls) :
          (dbCalls[i].result = "conn" /\ dbCalls[j].result = "conn")
          => dbCalls[i].conn = dbCalls[j].conn
    /\ ~IsNull(cached.conn) => attempts[Val(cached.conn)] = "resolved"
    /\ \A k \in 1..Len(attempts) :
          attempts[k] = "resolved" => k = Len(attempts)

C22_Witness ==
    /\ Len(attempts) = 1
    /\ Len(dbCalls) >= 3
    /\ \A i \in 1..Len(dbCalls) : dbCalls[i] = ReturnedConn(1)

\* a call of connectDB starts
CallStarts == Len(dbCalls') = Len(dbCalls) + 1

\* C23: a caller resumed on a failed attempt gets the rejection, with
\* cached.conn and cached.promise null afterwards; the connection cached
\* is never the one of a failed attempt; and the call that follows a
\* failure starts a fresh attempt.
C23_FailureNotCached ==
    [][/\ \A i \in 1..Len(dbCalls) :
             (/\ dbCalls[i].pc = "await"
              /\ dbCalls'[i].pc = "done"
              /\ attempts[dbCalls[i].awaiting] = "rejected")
             => /\ dbCalls'[i].result = "rejected"
                /\ IsNull(cached'.conn)
                /\ IsNull(cached'.promise)
       /\ ~IsNull(cached'.conn) => attempts'[Val(cached'.conn)] = "resolved"
       /\ (/\ CallStarts
           /\ Len(attempts) > 0
           /\ attempts[Len(attempts)] = "rejected")
          => /\ Len(attempts') = Len(attempts) + 1
             /\ dbCalls'[Len(dbCalls')] = Awaiting(Len(attempts'))]_vars

C23_Witness ==
    /\ Len(attempts) = 2
    /\ attempts[1] = "rejected"
    /\ attempts[2] = "resolved"
    /\ Len(dbCalls) >= 3
    /\ dbCalls[1] = Rejected
    /\ dbCalls[2] = Rejected
    /\ dbCalls[3] = ReturnedConn(2)

\* C27: the user store never holds two users with the same cedula nor two
\* with the same phone, of the calls carrying the same cedula or the same
\* phone at most one returns success, and every user created is offline.
C27_UniqueCedulaAndPhone ==
    /\ \A i, j \in 1..Len(accounts) :
          i # j => /\ accounts[i].cedula # accounts[j].cedula
                   /\ accounts[i].phone # accounts[j].phone
    /\ \A i, j \in 1..Len(creates) :
          (i # j /\ creates[i].result = "success"
                 /\ creates[j].result = "success")
          => /\ creates[i].form.cedula # creates[j].form.cedula
             /\ creates[i].form.phone # creates[j].form.phone
    /\ \A i \in 1..Len(accounts) : accounts[i].status = "offline"

\* C27, the part the unique index of cedula enforces
C27_UniqueCedula ==
    /\ \A i, j \in 1..Len(accounts) :
          i # j => accounts[i].cedula # accounts[j].cedula
    /\ \A i \in 1..Len(accounts) : accounts[i].status = "offline"

\* an order that lacks a latitude or a longitude
Lacking(loc) == IsNull(loc.lat) \/ IsNull(loc.lng)

\* the effect has drawn the map
MapDrawn == ~IsNull(mapDrawn) /\ Val(mapDrawn).drawn

\* the orders of the routes, then the pending ones
OrdersOnMap == flatOrders(Val(mapProps).routes) \o Val(mapProps).pendingOrders

\* the markers in the same order
MarkersOnMap == Val(mapDrawn).routeMarkers \o Val(mapDrawn).pendingMarkers

\* C25: the warning reports the number of orders of the routes and the
\* pending list that lack a latitude or a longitude, none if there is no
\* such order, and an order lacking one gets no marker.
C25_WarningCountsMissing ==
    MapDrawn =>
        LET n == Len(SelectSeq(OrdersOnMap, Lacking))
        IN  /\ Val(mapDrawn).toast = IF n > 0 THEN Some(n) ELSE NULL
            /\ \A i \in 1..Len(OrdersOnMap) :
                  Lacking(OrdersOnMap[i]) => ~MarkersOnMap[i]

\* C25 for orders whose coordinates, when present, are not 0
C25_WarningCountsMissingNonZero ==
    (MapDrawn /\ \A i \in 1..Len(OrdersOnMap) :
                    /\ OrdersOnMap[i].lat # Some(0)
                    /\ OrdersOnMap[i].lng # Some(0))
    => C25_WarningCountsMissing

=============================================================================
